---- MODULE Spec2Model ----
(***************************************************************************)
(* A model of lib/BeeswaxClient.js: the cookie-session client of the       *)
(* Beeswax REST API.                                                       *)
(*                                                                         *)
(* The client is single-threaded (node.js + bluebird): a callback runs to  *)
(* completion, and the callbacks of one promise chain run in turns of the  *)
(* event loop between which other calls are made and other responses       *)
(* arrive.  The state the calls share is self._authPromise, the login      *)
(* call on the wire and the cookie jar; everything else belongs to one     *)
(* call.  The model has one action per API call and one per event that     *)
(* reads or writes the shared state: the server handling a request, the    *)
(* client handling a response, the head of the login response reaching     *)
(* the cookie jar, the login promise settling with the deletion of         *)
(* self._authPromise (line 137), and the callback that a call hung on the  *)
(* login promise.  A step of a call carries the callbacks of that call     *)
(* that touch its own state only, up to its next network request.          *)
(***************************************************************************)
EXTENDS Integers, Sequences, FiniteSets, TLC

(***************************************************************************)
(* Bounds of the model.                                                    *)
(***************************************************************************)
\* number of API calls the caller makes on the one client instance
NumOps == 2
\* the server lets the first MaxExpire sessions expire
MaxExpire == 1
\* fetchBatch is not followed beyond this offset
MaxOffset == 150
\* number of queryAll calls made concurrently
NumQA == 1
\* number of find / create / edit / delete calls made concurrently
NumCrud == 1
\* number of calls made concurrently against the server's entity store
NumStore == 2
\* the ids the server gives to entities
MaxIds == 1
\* the server may accept the first MaxBare logins without a Set-Cookie
\* header in its response
MaxBare == 1

\* line 199: the page size of queryAll
batchSize == 50

Min(a, b) == IF a < b THEN a ELSE b

Ops == 1 .. NumOps
QAOps == 1 .. Min(NumQA, NumOps)
CrudOps == 1 .. Min(NumCrud, NumOps)
StoreOps == 1 .. Min(NumStore, NumOps)
Ids == 1 .. MaxIds

VARIABLES
    authPromise,   \* self._authPromise: 0 when deleted, else the login it stands for
    logins,        \* the login calls (POST /rest/authenticate) on the wire
    loginCalls,    \* how many login calls the client has issued so far
    cookieJar,     \* self._cookieJar: the session the jar holds (0: none)
    expired,       \* server side: the sessions up to this one have expired
    kind,          \* per call: the operation invoked
    pc,            \* per call: idle / sent / reply / auth / done
    stage,         \* per call: which of the operation's network calls is out
    tok,           \* per call: the session cookie the request on the wire carries
    resp,          \* per call: the response on the wire, then the one last handled
    waitOn,        \* per call: the login (authPromise) the call awaits
    authOut,       \* per call: how the login promise it awaits has settled
    reauths,       \* per call: authenticate() calls made by request() for it
    sends,         \* per call: network requests issued for it
    result,        \* per call: how the returned promise settled
    body,          \* per call: the body argument of create / edit
    failOnNotFound,\* per call: the failOnNotFound argument of edit / delete
    offset,        \* per call: fetchBatch's offset (queryAll)
    results,       \* per call: the results accumulated by queryAll
    total,         \* server side: the size of the entity set queryAll reads
    ident,         \* per call: the id of the entity the call reads or writes
    fields,        \* per call: the field values the body of create / edit carries
    store          \* server side: the field values of each entity (0: no entity)

vars == << authPromise, logins, loginCalls, cookieJar, expired,
           kind, pc, stage, tok, resp, waitOn, authOut, reauths, sends, result,
           body, failOnNotFound, offset, results, total, ident, fields, store >>

args == << body, failOnNotFound, ident, fields >>
paging == << offset, results >>

(***************************************************************************)
(* Values on the wire and values handed to the caller.                     *)
(***************************************************************************)
\* a message string of the server is a sequence of words, among them the
\* ones the client's patterns look for: "CouldNotLoadObject", "toUpdate",
\* "toDelete"

NoResp == [t |-> "none", code |-> 0, success |-> TRUE, payload |-> << >>, msg |-> << >>]

\* a 2xx response with a JSON envelope {success, payload}
Body(s, p, m) == [t |-> "body", code |-> 200, success |-> s, payload |-> p, msg |-> m]

\* a 2xx response without a body: rp resolves with undefined
EmptyBody == [t |-> "empty", code |-> 200, success |-> TRUE, payload |-> << >>, msg |-> << >>]

\* a non-2xx response: rp rejects with a StatusCodeError whose .error is the
\* parsed body; msg is body.payload[0].message
Status(c, m) == [t |-> "status", code |-> c, success |-> FALSE, payload |-> << >>, msg |-> m]

\* no response at all: rp rejects with a RequestError
Transport == [t |-> "transport", code |-> 0, success |-> FALSE, payload |-> << >>, msg |-> << >>]

\* a rejection reason.  name: the error class; hasBody: the error has an
\* .error property holding the server's body; response: the raw transport
\* response is still attached; from: "login" when authenticate() made it
Err(n, c, hb, m, r, f) ==
    [name |-> n, code |-> c, hasBody |-> hb, msg |-> m, response |-> r, from |-> f]

NoErr == Err("none", 0, FALSE, << >>, FALSE, "none")

\* the value a promise resolves with
Val(s, c, m, p) == [success |-> s, code |-> c, message |-> m, payload |-> p]

NoVal == Val(TRUE, 0, "", << >>)

Pending == [state |-> "pending", value |-> NoVal, error |-> NoErr]
Resolved(v) == [state |-> "resolved", value |-> v, error |-> NoErr]
Rejected(e) == [state |-> "rejected", value |-> NoVal, error |-> e]

\* a JavaScript value as the body guard sees it: whether it is truthy, its
\* constructor, the number of its own enumerable keys
JS(n, t, c, k) == [js |-> n, truthy |-> t, ctor |-> c, keys |-> k]

Undefined == JS("undefined", FALSE, "none", 0)

JSValues ==
    { Undefined,
      JS("null", FALSE, "none", 0),
      JS("string", TRUE, "String", 2),
      JS("emptyArray", TRUE, "Array", 0),
      JS("array", TRUE, "Array", 1),
      JS("instance", TRUE, "Custom", 1),
      JS("nullProto", TRUE, "none", 1),
      JS("emptyObject", TRUE, "Object", 0),
      JS("object", TRUE, "Object", 1) }

\* the failOnNotFound arguments
Flags == {"unset", "false", "true"}

\* body.payload[0].message of the server: an array of strings
NotFoundUpdate == << << "CouldNotLoadObject", "other", "toUpdate" >> >>
NotFoundDelete == << << "CouldNotLoadObject", "other", "toDelete" >> >>
NotFoundUpdateSecond == << << "other" >>, << "CouldNotLoadObject", "toUpdate" >> >>
NotFoundDeleteSecond == << << "other" >>, << "CouldNotLoadObject", "toDelete" >> >>
WrongOrder == << << "toUpdate", "toDelete", "CouldNotLoadObject" >> >>
OtherMessage == << << "other" >> >>

Messages ==
    { NotFoundUpdate, NotFoundDelete, NotFoundUpdateSecond, NotFoundDeleteSecond,
      WrongOrder, OtherMessage, << >> }

(***************************************************************************)
(* authenticate()                                                          *)
(***************************************************************************)
\* line 114: a login is pending
AuthPending == authPromise # 0

\* authenticate() without the check of line 114: every call logs in
authenticateUnguarded(o) ==
    /\ loginCalls' = loginCalls + 1
    /\ logins' = logins \cup {loginCalls + 1}
    /\ authPromise' = loginCalls + 1
    /\ waitOn' = [waitOn EXCEPT ![o] = loginCalls + 1]
    /\ authOut' = authOut

\* authenticate() as called on behalf of call o: join the pending login or
\* issue a login call and leave its promise in self._authPromise
authenticate(o) ==
    IF AuthPending
    THEN /\ waitOn' = [waitOn EXCEPT ![o] = authPromise]
         /\ UNCHANGED << authPromise, logins, loginCalls, authOut >>
    ELSE /\ loginCalls' = loginCalls + 1
         /\ logins' = logins \cup {loginCalls + 1}
         /\ authPromise' = loginCalls + 1
         /\ waitOn' = [waitOn EXCEPT ![o] = loginCalls + 1]
         /\ authOut' = authOut

\* what the server may answer to a login call
LoginAnswers ==
    { Body(TRUE, << >>, << >>), Body(FALSE, << >>, << >>), Status(401, << >>), Transport }

\* the error rp rejects with on response r: a StatusCodeError carries the
\* server's body (.error) and the raw response, a RequestError neither
rpError(r, f) ==
    IF r.t = "status"
    THEN Err("StatusCodeError", r.code, TRUE, r.msg, TRUE, f)
    ELSE Err("RequestError", 0, FALSE, << >>, FALSE, f)

\* the error is passed on as it came
stripNothing(e) == e

\* lines 134, 167: delete error.response
stripResponse(e) == [e EXCEPT !.response = FALSE]

\* lines 128-135: how the login promise settles on response r
loginOutcome(r) ==
    CASE r.t = "body" /\ r.success = FALSE ->
            Rejected(stripResponse(Err("Error", r.code, FALSE, r.msg, FALSE, "login")))
      [] r.t = "body" /\ r.success # FALSE -> Resolved(NoVal)
      [] r.t = "empty" ->
            Rejected(stripResponse(Err("TypeError", 0, FALSE, << >>, FALSE, "login")))
      [] OTHER -> Rejected(stripResponse(rpError(r, "login")))

(***************************************************************************)
(* request()                                                               *)
(***************************************************************************)
\* the response is a StatusCodeError, whatever its statusCode
IsErrorStatus(r) == r.t = "status"

\* lines 152-153: the response is a StatusCodeError with statusCode 401
Is401(r) == r.t = "status" /\ r.code = 401

\* request() without the check of the envelope: every body is returned
envelopeUnchecked(r) ==
    CASE r.t = "body" -> Resolved(Val(r.success, 0, "", r.payload))
      [] r.t = "empty" ->
            Rejected(stripResponse(Err("TypeError", 0, FALSE, << >>, FALSE, "request")))
      [] OTHER -> Rejected(stripResponse(rpError(r, "request")))

\* lines 160-169: how request() settles on a response that sendRequest let
\* through
envelope(r) ==
    CASE r.t = "body" /\ r.success = FALSE ->
            Rejected(stripResponse(Err("Error", r.code, FALSE, r.msg, FALSE, "request")))
      [] r.t = "body" /\ r.success # FALSE ->
            Resolved(Val(r.success, 0, "", r.payload))
      [] r.t = "empty" ->
            Rejected(stripResponse(Err("TypeError", 0, FALSE, << >>, FALSE, "request")))
      [] OTHER -> Rejected(stripResponse(rpError(r, "request")))

(***************************************************************************)
(* The state after construction (lines 84-107): no login pending, an empty *)
(* cookie jar, no call made yet.                                           *)
(***************************************************************************)
InitClient ==
    /\ authPromise = 0
    /\ logins = {}
    /\ loginCalls = 0
    /\ cookieJar = 0
    /\ expired = 0
    /\ kind = [o \in Ops |-> "none"]
    /\ pc = [o \in Ops |-> "idle"]
    /\ stage = [o \in Ops |-> "none"]
    /\ tok = [o \in Ops |-> 0]
    /\ resp = [o \in Ops |-> NoResp]
    /\ waitOn = [o \in Ops |-> 0]
    /\ authOut = [o \in Ops |-> Pending]
    /\ reauths = [o \in Ops |-> 0]
    /\ sends = [o \in Ops |-> 0]
    /\ result = [o \in Ops |-> Pending]
    /\ body = [o \in Ops |-> Undefined]
    /\ failOnNotFound = [o \in Ops |-> "unset"]
    /\ offset = [o \in Ops |-> 0]
    /\ results = [o \in Ops |-> << >>]
    /\ ident = [o \in Ops |-> 0]
    /\ fields = [o \in Ops |-> 0]

\* the field values a body of create or edit may carry
FieldValues == {1, 2}

\* an entity as the API's JSON shows it: its id and its other fields; an
\* entity of which only the id is shown has fields 0
Rec(id, d) == 10 * d + id

\* record.id (line 245: body.payload.id)
IdOf(r) == r % 10

\* the fields of a record other than its id
FieldsOf(r) == r \div 10

\* the server holds no entity
NoStore == [i \in Ids |-> 0]

Init == InitClient /\ total = 0 /\ store = NoStore

(***************************************************************************)
(* Steps shared by the operations.                                         *)
(***************************************************************************)
\* rp[method](opts) / rp(requestOpts): a request goes out with the cookie
\* the jar holds now
Send(o, st, jar) ==
    /\ pc' = [pc EXCEPT ![o] = "sent"]
    /\ stage' = [stage EXCEPT ![o] = st]
    /\ tok' = [tok EXCEPT ![o] = jar]
    /\ sends' = [sends EXCEPT ![o] = @ + 1]
    /\ resp' = [resp EXCEPT ![o] = NoResp]

\* the promise the operation returned settles
Finish(o, res) ==
    /\ pc' = [pc EXCEPT ![o] = "done"]
    /\ result' = [result EXCEPT ![o] = res]
    /\ resp' = resp
    /\ tok' = [tok EXCEPT ![o] = 0]
    /\ waitOn' = [waitOn EXCEPT ![o] = 0]
    /\ authOut' = [authOut EXCEPT ![o] = Pending]

\* the server accepts the session cookie a request carries
SessionOk(o) == tok[o] > expired

\* what the server may answer to a read under a valid session
ReadAnswers ==
    { Body(TRUE, << 1 >>, << >>), Body(FALSE, << >>, << >>), Status(500, << >>), Transport }

\* what the server may answer to a multipart upload under a valid session
UploadAnswers ==
    { Body(TRUE, << 1 >>, << >>), Body(FALSE, << >>, << >>), Status(500, << >>) }

\* what the server may answer to the POST of createUploadSegment under a
\* valid session
SegmentAnswers ==
    { Body(TRUE, << 1 >>, << >>), Body(FALSE, << >>, << >>), Status(500, << >>), Transport }

\* what the server may answer to a write under a valid session
WriteAnswers ==
    { Body(TRUE, << 1 >>, << >>), Body(FALSE, << >>, NotFoundUpdate),
      Body(FALSE, << >>, NotFoundDelete), EmptyBody, Transport }
    \cup { Status(400, m) : m \in Messages }

\* what the server may answer to the read of find under a valid session
FindAnswers ==
    { Body(TRUE, << 1 >>, << >>), Body(TRUE, << >>, << >>), Body(FALSE, << >>, << >>),
      Status(400, NotFoundUpdate), Status(500, << >>), Transport }

\* what the server may answer to the request of an operation of kind k at
\* stage st
Answers(k, st) ==
    CASE k = "upload" -> UploadAnswers
      [] k = "uploadSegmentFile" -> UploadAnswers
      [] k = "query" -> ReadAnswers
      [] k = "createUploadSegment" -> SegmentAnswers
      [] st = "write" -> WriteAnswers
      [] OTHER -> FindAnswers

\* the server handles the request of call o: 401 without a valid session,
\* else one of its answers to that request
ServerAnswers(o) ==
    /\ pc[o] = "sent"
    /\ kind[o] # "queryAll"
    /\ pc' = [pc EXCEPT ![o] = "reply"]
    /\ \E r \in Answers(kind[o], stage[o]) :
          resp' = [resp EXCEPT ![o] = IF SessionOk(o) THEN r ELSE Status(401, << >>)]
    /\ UNCHANGED << authPromise, logins, loginCalls, cookieJar, expired, kind, stage,
                    tok, waitOn, authOut, reauths, sends, result, args, paging, total, store >>

\* the server lets the sessions it has issued so far expire
Expire ==
    /\ expired < cookieJar
    /\ cookieJar <= MaxExpire
    /\ expired' = cookieJar
    /\ UNCHANGED << authPromise, logins, loginCalls, cookieJar, kind, pc, stage, tok,
                    resp, waitOn, authOut, reauths, sends, result, args, paging, total, store >>

(***************************************************************************)
(* request(): the 401 branch of sendRequest (lines 152-158).               *)
(***************************************************************************)
\* the operations whose network calls go through request()
ViaRequest(o) == kind[o] \notin {"none", "authenticate", "upload", "uploadSegmentFile"}

Reply401(o) ==
    /\ pc[o] = "reply"
    /\ ViaRequest(o)
    /\ Is401(resp[o])
    /\ authenticate(o)
    /\ pc' = [pc EXCEPT ![o] = "auth"]
    /\ reauths' = [reauths EXCEPT ![o] = @ + 1]
    /\ resp' = [resp EXCEPT ![o] = NoResp]
    /\ UNCHANGED << cookieJar, expired, kind, stage, tok, sends, result,
                    args, paging, total, store >>

(***************************************************************************)
(* The not-found conversion of edit and delete (lines 297-316, 330-349).   *)
(***************************************************************************)
\* the two phrases in either order
matchesAnyOrder(str, w) ==
    \E i, j \in 1 .. Len(str) : str[i] = "CouldNotLoadObject" /\ str[j] = w

\* /Could not load object.*to update/.test(str), on a string of words
matchesPattern(str, w) ==
    \E i, j \in 1 .. Len(str) :
        i < j /\ str[i] = "CouldNotLoadObject" /\ str[j] = w

\* the message is looked up on any error, with or without a server body
notFoundAnyError(e, w) == \E k \in 1 .. Len(e.msg) : matchesPattern(e.msg[k], w)

\* resp.error.payload[0].message.some(...), false when the lookup throws
notFound(e, w) ==
    e.hasBody /\ \E k \in 1 .. Len(e.msg) : matchesPattern(e.msg[k], w)

\* a failOnNotFound argument is truthy
Truthy(f) == f = "true"

NotFoundValue == Val(FALSE, 400, "Not found", << >>)

\* the conversion of edit without regard to failOnNotFound
editCatchAlways(e, f) ==
    IF notFound(e, "toUpdate") THEN Resolved(NotFoundValue) ELSE Rejected(e)

\* the conversion of delete with the pattern of edit
deleteCatchUpdatePattern(e, f) ==
    IF notFound(e, "toUpdate") /\ ~Truthy(f) THEN Resolved(NotFoundValue) ELSE Rejected(e)

\* lines 297-316
editCatch(e, f) ==
    IF notFound(e, "toUpdate") /\ ~Truthy(f) THEN Resolved(NotFoundValue) ELSE Rejected(e)

\* lines 330-349
deleteCatch(e, f) ==
    IF notFound(e, "toDelete") /\ ~Truthy(f) THEN Resolved(NotFoundValue) ELSE Rejected(e)

\* how the operation of call o ends when its request() rejects with e
opFailure(o, e) ==
    CASE kind[o] = "edit" -> editCatch(e, failOnNotFound[o])
      [] kind[o] = "delete" -> deleteCatch(e, failOnNotFound[o])
      [] OTHER -> Rejected(e)

(***************************************************************************)
(* The login call settles (lines 128-138), and the calls that awaited it   *)
(* go on or fail, each in a turn of its own.                               *)
(***************************************************************************)
\* the marker cleared in a then() instead of the finally()
markerClearedOnSuccess(out) == IF out.state = "resolved" THEN 0 ELSE authPromise

\* lines 136-138: self._authPromise once the login has settled as out
markerAfterLogin(out) == 0

\* request() sends again whatever the login came to
continuesViaRequest(k, ok) == ok \/ k \notin {"authenticate", "upload", "uploadSegmentFile"}

\* the awaiting call goes on whether the login succeeded or not
continuesAlways(k, ok) == k # "authenticate"

\* the awaiting call never goes on: the request is not sent again
continuesNever(k, ok) == FALSE

\* lines 157, 256: a call of kind k that awaits the login goes on to its
\* network request when the login succeeded; authenticate() itself has
\* nothing to go on to
continues(k, ok) == ok /\ k # "authenticate"

\* the calls awaiting login id
Waiters(id) == { o \in Ops : pc[o] = "auth" /\ waitOn[o] = id }

\* how a call awaiting the login ends when the login fails with e
afterAuthFailure(o, e) ==
    IF ViaRequest(o) THEN opFailure(o, stripResponse(e)) ELSE Rejected(e)

\* the jar holds the session of login id: the head of the response to
\* that login has arrived
HeadArrived(id) == cookieJar = id

\* line 126: the login call is made with jar: self._cookieJar, and the
\* transport puts the session cookie of a Set-Cookie header into the jar
\* when the head of the response arrives, whatever the status and the
\* body of that response; the body has not ended yet, the login promise
\* is pending and self._authPromise is still set
LoginHead(id) ==
    /\ id \in logins
    /\ ~HeadArrived(id)
    /\ cookieJar' = id
    /\ UNCHANGED << authPromise, logins, loginCalls, expired, kind, pc, stage, tok,
                    resp, waitOn, authOut, reauths, sends, result, args, paging, total, store >>

\* the head of the response to a login call on the wire arrives
LoginArrives == \E id \in logins : LoginHead(id)

\* lines 128-138: the body of the response to login id has ended, or the
\* login call failed, and the login promise settles on the body and on
\* the error of the transport alone: a login whose response set the
\* session cookie may fail and leave the cookie in the jar, a login whose
\* response set none may succeed and leave the jar as it was.  The
\* finally() deletes the marker; the calls that await the promise learn
\* its outcome, their callbacks run in later turns (AuthThen)
LoginSettles(id) ==
    \E r \in LoginAnswers :
      LET out == loginOutcome(r)
          ok == out.state = "resolved"
      IN
      /\ id \in logins
      /\ (ok /\ ~HeadArrived(id)) => id <= MaxBare
      /\ logins' = logins \ {id}
      /\ authPromise' = markerAfterLogin(out)
      /\ authOut' = [o \in Ops |-> IF o \in Waiters(id) THEN out ELSE authOut[o]]
      /\ UNCHANGED << loginCalls, cookieJar, expired, kind, pc, stage, tok, resp, waitOn,
                      reauths, sends, result, args, paging, total, store >>

\* the login call on the wire settles
LoginDone == \E id \in logins : LoginSettles(id)

\* the login promise call o awaits has settled and its callback is due
Settled(o) == pc[o] = "auth" /\ authOut[o].state # "pending"

\* lines 157, 256, 378: the callback that call o hung on the login promise
\* runs.  After a login that succeeded request() sends again and an upload
\* sends its multipart request, with the cookie the jar holds now; the
\* authenticate() of the caller is fulfilled.  After a login that failed
\* the rejection runs down the chain of the call to its caller
AuthThen(o) ==
    LET out == authOut[o]
        ok == out.state = "resolved"
    IN
    /\ Settled(o)
    /\ IF continues(kind[o], ok)
       THEN /\ Send(o, IF ViaRequest(o) THEN stage[o] ELSE "multipart", cookieJar)
            /\ result' = result
       ELSE /\ pc' = [pc EXCEPT ![o] = "done"]
            /\ result' = [result EXCEPT
                            ![o] = IF ok THEN out ELSE afterAuthFailure(o, out.error)]
            /\ tok' = [tok EXCEPT ![o] = 0]
            /\ UNCHANGED << stage, sends, resp >>
    /\ waitOn' = [waitOn EXCEPT ![o] = 0]
    /\ authOut' = [authOut EXCEPT ![o] = Pending]
    /\ UNCHANGED << authPromise, logins, loginCalls, cookieJar, expired, kind, reauths,
                    args, paging, total, store >>

(***************************************************************************)
(* The calls of the caller.                                                *)
(***************************************************************************)
\* calls are numbered in the order they are made
Callable(o) == pc[o] = "idle" /\ (IF o = 1 THEN TRUE ELSE pc[o - 1] # "idle")

\* authenticate() called by the caller
CallAuthenticate(o) ==
    /\ Callable(o)
    /\ kind' = [kind EXCEPT ![o] = "authenticate"]
    /\ authenticate(o)
    /\ pc' = [pc EXCEPT ![o] = "auth"]
    /\ UNCHANGED << cookieJar, expired, stage, tok, resp, reauths, sends, result,
                    args, paging, total, store >>

\* _query (lines 185-193): one read through request()
CallQuery(o) ==
    /\ Callable(o)
    /\ kind' = [kind EXCEPT ![o] = "query"]
    /\ Send(o, "read", cookieJar)
    /\ UNCHANGED << authPromise, logins, loginCalls, cookieJar, expired, waitOn, authOut,
                    reauths, result, args, paging, total, store >>

\* lines 190-192
queryThen(out) ==
    IF out.state = "resolved"
    THEN Resolved(Val(TRUE, 0, "", out.value.payload))
    ELSE out

QueryReply(o) ==
    /\ pc[o] = "reply"
    /\ kind[o] = "query"
    /\ ~Is401(resp[o])
    /\ Finish(o, queryThen(envelope(resp[o])))
    /\ UNCHANGED << authPromise, logins, loginCalls, cookieJar, expired, kind, stage,
                    reauths, sends, args, paging, total, store >>

\* createUploadSegment (lines 353-366): one POST through request(), whose
\* promise is returned as it is
CallCreateUploadSegment(o) ==
    /\ Callable(o)
    /\ kind' = [kind EXCEPT ![o] = "createUploadSegment"]
    /\ Send(o, "write", cookieJar)
    /\ UNCHANGED << authPromise, logins, loginCalls, cookieJar, expired, waitOn, authOut,
                    reauths, result, args, paging, total, store >>

SegmentReply(o) ==
    /\ pc[o] = "reply"
    /\ kind[o] = "createUploadSegment"
    /\ ~Is401(resp[o])
    /\ Finish(o, envelope(resp[o]))
    /\ UNCHANGED << authPromise, logins, loginCalls, cookieJar, expired, kind, stage,
                    reauths, sends, args, paging, total, store >>

\* _uploadCreativeAsset (lines 249-276): authenticate, then the multipart
\* request, sent with rp directly
CallUpload(o) ==
    /\ Callable(o)
    /\ kind' = [kind EXCEPT ![o] = "upload"]
    /\ authenticate(o)
    /\ pc' = [pc EXCEPT ![o] = "auth"]
    /\ stage' = [stage EXCEPT ![o] = "auth"]
    /\ UNCHANGED << cookieJar, expired, tok, resp, reauths, sends, result,
                    args, paging, total, store >>

\* the multipart response settles the upload the way request() would
uploadSettleChecked(r) == queryThen(envelope(r))

\* lines 265-271: the multipart response settles the upload as it is
uploadSettle(r) ==
    IF r.t \in {"body", "empty"}
    THEN Resolved(Val(TRUE, 0, "", r.payload))
    ELSE Rejected(rpError(r, "upload"))

UploadReply(o) ==
    /\ pc[o] = "reply"
    /\ kind[o] = "upload"
    /\ Finish(o, uploadSettle(resp[o]))
    /\ UNCHANGED << authPromise, logins, loginCalls, cookieJar, expired, kind, stage,
                    reauths, sends, args, paging, total, store >>

\* uploadSegmentFile (lines 368-398): authenticate, then the multipart
\* request of the segment file, sent with rp directly
CallUploadSegmentFile(o) ==
    /\ Callable(o)
    /\ kind' = [kind EXCEPT ![o] = "uploadSegmentFile"]
    /\ authenticate(o)
    /\ pc' = [pc EXCEPT ![o] = "auth"]
    /\ stage' = [stage EXCEPT ![o] = "auth"]
    /\ UNCHANGED << cookieJar, expired, tok, resp, reauths, sends, result,
                    args, paging, total, store >>

\* lines 387-393: the multipart response settles the segment upload as it
\* is
segmentFileSettle(r) ==
    IF r.t \in {"body", "empty"}
    THEN Resolved(Val(TRUE, 0, "", r.payload))
    ELSE Rejected(rpError(r, "uploadSegmentFile"))

SegmentFileReply(o) ==
    /\ pc[o] = "reply"
    /\ kind[o] = "uploadSegmentFile"
    /\ Finish(o, segmentFileSettle(resp[o]))
    /\ UNCHANGED << authPromise, logins, loginCalls, cookieJar, expired, kind, stage,
                    reauths, sends, args, paging, total, store >>

(***************************************************************************)
(* The client under concurrent calls: authenticate, query and upload.      *)
(***************************************************************************)
Next ==
    \/ \E o \in Ops : CallAuthenticate(o)
    \/ \E o \in Ops : CallQuery(o)
    \/ \E o \in Ops : CallUpload(o)
    \/ \E o \in Ops : ServerAnswers(o)
    \/ \E o \in Ops : Reply401(o)
    \/ \E o \in Ops : AuthThen(o)
    \/ \E o \in Ops : QueryReply(o)
    \/ \E o \in Ops : UploadReply(o)
    \/ LoginArrives
    \/ LoginDone
    \/ Expire

Spec == Init /\ [][Next]_vars

\* what happens without the caller: the server answers the requests on the
\* wire, the responses are handled, the login call ends and the callbacks
\* of the calls that await it run
Progress ==
    \/ \E o \in Ops : ServerAnswers(o)
    \/ \E o \in Ops : Reply401(o)
    \/ \E o \in Ops : AuthThen(o)
    \/ \E o \in Ops : QueryReply(o)
    \/ \E o \in Ops : UploadReply(o)
    \/ LoginArrives
    \/ LoginDone

\* every request on the wire is answered in the end, and the event loop
\* runs every callback that is due
FairSpec == Init /\ [][Next]_vars /\ WF_vars(Progress)

(***************************************************************************)
(* request() by itself: concurrent calls of createUploadSegment, which     *)
(* returns the promise of request() as it is.                              *)
(***************************************************************************)
NextRequest ==
    \/ \E o \in Ops : CallCreateUploadSegment(o)
    \/ \E o \in Ops : ServerAnswers(o)
    \/ \E o \in Ops : Reply401(o)
    \/ \E o \in Ops : AuthThen(o)
    \/ \E o \in Ops : SegmentReply(o)
    \/ LoginArrives
    \/ LoginDone
    \/ Expire

SpecRequest == Init /\ [][NextRequest]_vars

(***************************************************************************)
(* The uploads beside request(): authenticate, createUploadSegment through *)
(* request(), and the two multipart uploads, _uploadCreativeAsset and      *)
(* uploadSegmentFile, on a server whose sessions last.                     *)
(***************************************************************************)
NextUploads ==
    \/ \E o \in Ops : CallAuthenticate(o)
    \/ \E o \in Ops : CallCreateUploadSegment(o)
    \/ \E o \in Ops : CallUpload(o)
    \/ \E o \in Ops : CallUploadSegmentFile(o)
    \/ \E o \in Ops : ServerAnswers(o)
    \/ \E o \in Ops : Reply401(o)
    \/ \E o \in Ops : AuthThen(o)
    \/ \E o \in Ops : SegmentReply(o)
    \/ \E o \in Ops : UploadReply(o)
    \/ \E o \in Ops : SegmentFileReply(o)
    \/ LoginArrives
    \/ LoginDone

SpecUploads == Init /\ [][NextUploads]_vars

(***************************************************************************)
(* queryAll (lines 196-226) against a server that holds a static entity    *)
(* set, the records 1 .. total in sort order, and serves it by offset.     *)
(***************************************************************************)
\* the sizes of the entity set
Sizes == {0, 49, 50, 51, 100}

\* the records the server returns for rows = batchSize at offset off
Page(off) ==
    IF off >= total
    THEN << >>
    ELSE [i \in 1 .. Min(batchSize, total - off) |-> off + i]

InitQA == InitClient /\ total \in Sizes /\ store = NoStore

\* lines 196-200, 225: queryAll starts with fetchBatch(0)
CallQueryAll(o) ==
    /\ Callable(o)
    /\ kind' = [kind EXCEPT ![o] = "queryAll"]
    /\ offset' = [offset EXCEPT ![o] = 0]
    /\ results' = [results EXCEPT ![o] = << >>]
    /\ Send(o, "page", cookieJar)
    /\ UNCHANGED << authPromise, logins, loginCalls, cookieJar, expired, waitOn, authOut,
                    reauths, result, args, total, store >>

\* the server handles a page request: 401 without a valid session, else
\* the page at the offset the request names
ServerPage(o) ==
    /\ pc[o] = "sent"
    /\ kind[o] = "queryAll"
    /\ pc' = [pc EXCEPT ![o] = "reply"]
    /\ resp' = [resp EXCEPT ![o] =
                   IF SessionOk(o)
                   THEN Body(TRUE, Page(offset[o]), << >>)
                   ELSE Status(401, << >>)]
    /\ UNCHANGED << authPromise, logins, loginCalls, cookieJar, expired, kind, stage,
                    tok, waitOn, authOut, reauths, sends, result, args, paging, total, store >>

\* the stopping rule with <= for <
lastPageOrFull(p) == Len(p) <= batchSize

\* the stopping rule that takes an empty page for a reason to go on
lastPageNonEmpty(p) == 0 < Len(p) /\ Len(p) < batchSize

\* line 217: the page is the last one
lastPage(p) == Len(p) < batchSize

\* the accumulator kept in one place for all invocations
accumulatedShared(o) == results[1]

\* lines 200, 215: results is a variable of the invocation of _queryAll
accumulated(o) == results[o]

\* a failed page ends the call with the records of the pages before it
pageFailurePartial(o, out) == Resolved(Val(TRUE, 0, "", results[o]))

\* line 214: a rejection of request() skips the then() of fetchBatch and is
\* the rejection of the whole chain
pageFailure(o, out) == out

\* lines 214-222: a page request settles
QueryAllReply(o) ==
    /\ pc[o] = "reply"
    /\ kind[o] = "queryAll"
    /\ ~Is401(resp[o])
    /\ LET out == envelope(resp[o])
           page == out.value.payload
       IN
       IF out.state = "rejected"
       THEN /\ Finish(o, pageFailure(o, out))
            /\ UNCHANGED << stage, sends, paging >>
       ELSE /\ results' = [results EXCEPT ![o] = accumulated(o) \o page]
            /\ IF lastPage(page)
               THEN /\ Finish(o, Resolved(Val(TRUE, 0, "", results'[o])))
                    /\ UNCHANGED << stage, sends, offset >>
               ELSE /\ offset[o] < MaxOffset
                    /\ offset' = [offset EXCEPT ![o] = @ + batchSize]
                    /\ Send(o, "page", cookieJar)
                    /\ UNCHANGED << waitOn, authOut, result >>
    /\ UNCHANGED << authPromise, logins, loginCalls, cookieJar, expired, kind,
                    reauths, args, total, store >>

\* the network events of a queryAll: they happen as long as they can
ProgressQA ==
    \/ \E o \in QAOps : ServerPage(o)
    \/ \E o \in QAOps : Reply401(o)
    \/ \E o \in QAOps : AuthThen(o)
    \/ \E o \in QAOps : QueryAllReply(o)
    \/ LoginArrives
    \/ LoginDone

NextQA ==
    \/ \E o \in QAOps : CallQueryAll(o)
    \/ \E o \in QAOps : ServerPage(o)
    \/ \E o \in QAOps : Reply401(o)
    \/ \E o \in QAOps : AuthThen(o)
    \/ \E o \in QAOps : QueryAllReply(o)
    \/ LoginArrives
    \/ LoginDone
    \/ Expire

SpecQA == InitQA /\ [][NextQA]_vars

\* what the server may answer to a page request it fails to serve
PageFailures == { Status(500, << >>), Body(FALSE, << >>, << >>), Transport }

\* the server fails to serve a page request
ServerPageFails(o) ==
    /\ pc[o] = "sent"
    /\ kind[o] = "queryAll"
    /\ pc' = [pc EXCEPT ![o] = "reply"]
    /\ \E r \in PageFailures : resp' = [resp EXCEPT ![o] = r]
    /\ UNCHANGED << authPromise, logins, loginCalls, cookieJar, expired, kind, stage,
                    tok, waitOn, authOut, reauths, sends, result, args, paging, total, store >>

\* queryAll against a server that may fail any page request
NextQAFail ==
    \/ \E o \in QAOps : CallQueryAll(o)
    \/ \E o \in QAOps : ServerPage(o)
    \/ \E o \in QAOps : ServerPageFails(o)
    \/ \E o \in QAOps : Reply401(o)
    \/ \E o \in QAOps : AuthThen(o)
    \/ \E o \in QAOps : QueryAllReply(o)
    \/ LoginArrives
    \/ LoginDone
    \/ Expire

SpecQAFail == InitQA /\ [][NextQAFail]_vars

\* queryAll called concurrently on a fresh client; the session the calls
\* obtain does not expire
NextQAConc ==
    \/ \E o \in Ops : CallQueryAll(o)
    \/ \E o \in Ops : ServerPage(o)
    \/ \E o \in Ops : Reply401(o)
    \/ \E o \in Ops : AuthThen(o)
    \/ \E o \in Ops : QueryAllReply(o)
    \/ LoginArrives
    \/ LoginDone

SpecQAConc == InitQA /\ [][NextQAConc]_vars

\* the server answers every request, every response reaches the client
FairSpecQA == InitQA /\ [][NextQA]_vars /\ WF_vars(ProgressQA)

(***************************************************************************)
(* find, create, edit and delete against a server that may answer anything *)
(***************************************************************************)
\* any truthy value passes for a plain object
isPOJOTruthy(value) == value.truthy

\* lines 16-18
isPOJO(value) == value.truthy /\ value.ctor = "Object"

\* Object.keys(body || {}).length
keyCount(value) == IF value.truthy THEN value.keys ELSE 0

\* lines 232, 281: the guard of create and edit
badBody(value) == ~isPOJO(value) \/ keyCount(value) = 0

\* lines 233-237, 282-286
BadBodyValue == Val(FALSE, 400, "Body must be non-empty object", << >>)

\* payload[0]: the first record, undefined when there is none
First(p) == IF Len(p) > 0 THEN << p[1] >> ELSE << >>

\* _find (lines 173-182) called with id
find(o, id) ==
    /\ Callable(o)
    /\ kind' = [kind EXCEPT ![o] = "find"]
    /\ ident' = [ident EXCEPT ![o] = id]
    /\ Send(o, "read", cookieJar)
    /\ UNCHANGED << authPromise, logins, loginCalls, cookieJar, expired, waitOn, authOut,
                    reauths, result, body, failOnNotFound, fields, paging, total, store >>

\* _create (lines 229-247) up to its write, called with the body b whose
\* fields are d
create(o, b, d) ==
    /\ Callable(o)
    /\ kind' = [kind EXCEPT ![o] = "create"]
    /\ body' = [body EXCEPT ![o] = b]
    /\ fields' = [fields EXCEPT ![o] = d]
    /\ IF badBody(b)
       THEN /\ Finish(o, Resolved(BadBodyValue))
            /\ UNCHANGED << stage, sends >>
       ELSE /\ Send(o, "write", cookieJar)
            /\ UNCHANGED << waitOn, authOut, result >>
    /\ UNCHANGED << authPromise, logins, loginCalls, cookieJar, expired,
                    reauths, failOnNotFound, ident, paging, total, store >>

\* _edit (lines 279-294) up to its write, called with id, the body b whose
\* fields are d, and failOnNotFound f
edit(o, id, b, d, f) ==
    /\ Callable(o)
    /\ kind' = [kind EXCEPT ![o] = "edit"]
    /\ ident' = [ident EXCEPT ![o] = id]
    /\ failOnNotFound' = [failOnNotFound EXCEPT ![o] = f]
    /\ body' = [body EXCEPT ![o] = b]
    /\ fields' = [fields EXCEPT ![o] = d]
    /\ IF badBody(b)
       THEN /\ Finish(o, Resolved(BadBodyValue))
            /\ UNCHANGED << stage, sends >>
       ELSE /\ Send(o, "write", cookieJar)
            /\ UNCHANGED << waitOn, authOut, result >>
    /\ UNCHANGED << authPromise, logins, loginCalls, cookieJar, expired,
                    reauths, paging, total, store >>

\* _delete (lines 320-327) up to its request, called with id and
\* failOnNotFound f
delete(o, id, f) ==
    /\ Callable(o)
    /\ kind' = [kind EXCEPT ![o] = "delete"]
    /\ ident' = [ident EXCEPT ![o] = id]
    /\ failOnNotFound' = [failOnNotFound EXCEPT ![o] = f]
    /\ Send(o, "write", cookieJar)
    /\ UNCHANGED << authPromise, logins, loginCalls, cookieJar, expired, waitOn, authOut,
                    reauths, result, body, fields, paging, total, store >>

\* the caller's calls against a server that may answer anything
CallFind(o) == find(o, 1)

CallCreate(o) == \E b \in JSValues : create(o, b, 1)

CallEdit(o) == \E f \in Flags : \E b \in JSValues : edit(o, 1, b, 1, f)

CallDelete(o) == \E f \in Flags : delete(o, 1, f)

\* lines 244, 294: the read-back hangs off the write with then(): it is
\* made when the write is fulfilled
readsBack(out) == out.state = "resolved"

\* the read-back of create asks for the id the call was given: none
readBackIdGiven(o, out) == ident[o]

\* line 245: create reads back body.payload.id of the write's answer;
\* line 295: edit reads back the id it was called with
readBackId(o, out) ==
    IF kind[o] = "create"
    THEN IF Len(out.value.payload) > 0 THEN IdOf(out.value.payload[1]) ELSE 0
    ELSE ident[o]

\* lines 244-246, 294-296: the write of create or edit settles; on success
\* the entity is read back with _find
WriteReply(o) ==
    /\ pc[o] = "reply"
    /\ kind[o] \in {"create", "edit"}
    /\ stage[o] = "write"
    /\ ~Is401(resp[o])
    /\ LET out == envelope(resp[o]) IN
       IF readsBack(out)
       THEN /\ Send(o, "read", cookieJar)
            /\ ident' = [ident EXCEPT ![o] = readBackId(o, out)]
            /\ UNCHANGED << waitOn, authOut, result >>
       ELSE /\ Finish(o, opFailure(o, out.error))
            /\ UNCHANGED << stage, sends, ident >>
    /\ UNCHANGED << authPromise, logins, loginCalls, cookieJar, expired, kind,
                    reauths, body, failOnNotFound, fields, paging, total, store >>

\* lines 179-181, 327-329: what find and delete make of the body
firstThen(out) == Resolved(Val(TRUE, 0, "", First(out.value.payload)))

\* lines 179-181: the read of find, create or edit settles
ReadReply(o) ==
    /\ pc[o] = "reply"
    /\ kind[o] \in {"find", "create", "edit"}
    /\ stage[o] = "read"
    /\ ~Is401(resp[o])
    /\ LET out == envelope(resp[o]) IN
       Finish(o, IF out.state = "resolved" THEN firstThen(out) ELSE opFailure(o, out.error))
    /\ UNCHANGED << authPromise, logins, loginCalls, cookieJar, expired, kind, stage,
                    reauths, sends, args, paging, total, store >>

\* lines 327-349: the request of delete settles
DeleteReply(o) ==
    /\ pc[o] = "reply"
    /\ kind[o] = "delete"
    /\ ~Is401(resp[o])
    /\ LET out == envelope(resp[o]) IN
       Finish(o, IF out.state = "resolved" THEN firstThen(out) ELSE opFailure(o, out.error))
    /\ UNCHANGED << authPromise, logins, loginCalls, cookieJar, expired, kind, stage,
                    reauths, sends, args, paging, total, store >>

NextCrud ==
    \/ \E o \in CrudOps : CallFind(o)
    \/ \E o \in CrudOps : CallCreate(o)
    \/ \E o \in CrudOps : CallEdit(o)
    \/ \E o \in CrudOps : CallDelete(o)
    \/ \E o \in CrudOps : ServerAnswers(o)
    \/ \E o \in CrudOps : Reply401(o)
    \/ \E o \in CrudOps : AuthThen(o)
    \/ \E o \in CrudOps : WriteReply(o)
    \/ \E o \in CrudOps : ReadReply(o)
    \/ \E o \in CrudOps : DeleteReply(o)
    \/ LoginArrives
    \/ LoginDone
    \/ Expire

SpecCrud == Init /\ [][NextCrud]_vars

(***************************************************************************)
(* find, create, edit and delete against a server that keeps the entities  *)
(* (the REST API the client talks to: POST creates, PUT updates, DELETE    *)
(* deletes, GET filters by id).                                            *)
(***************************************************************************)
\* the plain object with one key
ObjectBody == JS("object", TRUE, "Object", 1)

\* the ids the server can give to a new entity
FreeIds == { i \in Ids : store[i] = 0 }

NewId == CHOOSE i \in FreeIds : \A j \in FreeIds : i <= j

\* the server has the entity request o names
Exists(o) == ident[o] \in Ids /\ store[ident[o]] # 0

\* the answer of the server to request o under a valid session.  The answer
\* to a POST shows the id of the new entity only (line 242: the read-back
\* is there because the API may return partial data on create)
storeAnswer(o) ==
    CASE stage[o] = "read" ->
            Body(TRUE, IF Exists(o) THEN << Rec(ident[o], store[ident[o]]) >> ELSE << >>, << >>)
      [] kind[o] = "create" ->
            IF FreeIds = {} THEN Status(400, OtherMessage)
            ELSE Body(TRUE, << Rec(NewId, 0) >>, << >>)
      [] kind[o] = "edit" ->
            IF Exists(o) THEN Body(TRUE, << Rec(ident[o], fields[o]) >>, << >>)
            ELSE Status(400, NotFoundUpdate)
      [] OTHER ->
            IF Exists(o) THEN Body(TRUE, << Rec(ident[o], store[ident[o]]) >>, << >>)
            ELSE Status(400, NotFoundDelete)

\* the entities the server holds after request o under a valid session
storeAfter(o) ==
    CASE stage[o] = "read" -> store
      [] kind[o] = "create" ->
            IF FreeIds = {} THEN store ELSE [store EXCEPT ![NewId] = fields[o]]
      [] kind[o] = "edit" ->
            IF Exists(o) THEN [store EXCEPT ![ident[o]] = fields[o]] ELSE store
      [] OTHER ->
            IF Exists(o) THEN [store EXCEPT ![ident[o]] = 0] ELSE store

\* the server handles the request of call o: 401 without a valid session,
\* else it carries the request out
StoreAnswers(o) ==
    /\ pc[o] = "sent"
    /\ pc' = [pc EXCEPT ![o] = "reply"]
    /\ IF SessionOk(o)
       THEN /\ resp' = [resp EXCEPT ![o] = storeAnswer(o)]
            /\ store' = storeAfter(o)
       ELSE /\ resp' = [resp EXCEPT ![o] = Status(401, << >>)]
            /\ store' = store
    /\ UNCHANGED << authPromise, logins, loginCalls, cookieJar, expired, kind, stage,
                    tok, waitOn, authOut, reauths, sends, result, args, paging, total >>

\* the caller's calls against that server
StoreFind(o) == \E id \in Ids : find(o, id)

StoreCreate(o) == \E d \in FieldValues : create(o, ObjectBody, d)

StoreEdit(o) == \E id \in Ids : \E d \in FieldValues : edit(o, id, ObjectBody, d, "unset")

StoreDelete(o) == \E id \in Ids : delete(o, id, "unset")

\* the client after a first authenticate() that succeeded: the jar holds
\* session 1, which the server does not let expire here; the server holds
\* any entities
InitStore ==
    /\ authPromise = 0
    /\ logins = {}
    /\ loginCalls = 1
    /\ cookieJar = 1
    /\ expired = 0
    /\ kind = [o \in Ops |-> "none"]
    /\ pc = [o \in Ops |-> "idle"]
    /\ stage = [o \in Ops |-> "none"]
    /\ tok = [o \in Ops |-> 0]
    /\ resp = [o \in Ops |-> NoResp]
    /\ waitOn = [o \in Ops |-> 0]
    /\ authOut = [o \in Ops |-> Pending]
    /\ reauths = [o \in Ops |-> 0]
    /\ sends = [o \in Ops |-> 0]
    /\ result = [o \in Ops |-> Pending]
    /\ body = [o \in Ops |-> Undefined]
    /\ failOnNotFound = [o \in Ops |-> "unset"]
    /\ offset = [o \in Ops |-> 0]
    /\ results = [o \in Ops |-> << >>]
    /\ ident = [o \in Ops |-> 0]
    /\ fields = [o \in Ops |-> 0]
    /\ total = 0
    /\ store \in [Ids -> {0} \cup FieldValues]

NextStore ==
    \/ \E o \in StoreOps : StoreFind(o)
    \/ \E o \in StoreOps : StoreCreate(o)
    \/ \E o \in StoreOps : StoreEdit(o)
    \/ \E o \in StoreOps : StoreDelete(o)
    \/ \E o \in StoreOps : StoreAnswers(o)
    \/ \E o \in StoreOps : WriteReply(o)
    \/ \E o \in StoreOps : ReadReply(o)
    \/ \E o \in StoreOps : DeleteReply(o)

SpecStore == InitStore /\ [][NextStore]_vars

(***************************************************************************)
(* Properties of authenticate() and request() under Spec.                  *)
(***************************************************************************)
\* call o invokes authenticate() in this step
CallsAuthenticate(o) == pc[o] # "auth" /\ pc'[o] = "auth"

\* login id settles in this step
Settles(id) == id \in logins /\ id \notin logins'

\* the callback of call o on the login promise it awaits runs in this step
AuthContinues(o) == Settled(o) /\ pc'[o] # "auth"

\* C1: at most one login call is in flight at any time; an authenticate()
\* invoked while a login is in flight issues no login call and awaits the
\* one in flight.  When that login settles, every call that awaits it
\* receives the one outcome of that login, and a call that has received it
\* keeps it until it acts on it: on success it goes on (authenticate()
\* resolves, a request or an upload is sent), on failure it ends with the
\* error of the login.
C1_SingleFlight ==
    [][ /\ Cardinality(logins') <= 1
        /\ \A o \in Ops :
              (CallsAuthenticate(o) /\ logins # {}) =>
                  /\ logins' = logins
                  /\ loginCalls' = loginCalls
                  /\ waitOn'[o] \in logins
                  /\ authOut'[o] = Pending
        /\ \A id \in logins :
              Settles(id) =>
                  \E r \in LoginAnswers :
                      \A o \in Ops :
                          authOut'[o] = IF o \in Waiters(id) THEN loginOutcome(r)
                                        ELSE authOut[o]
        /\ \A o \in Ops :
              /\ (authOut'[o] # authOut[o] /\ authOut[o] = Pending) =>
                    pc[o] = "auth" /\ Settles(waitOn[o])
              /\ (authOut'[o] # authOut[o] /\ authOut[o] # Pending) =>
                    AuthContinues(o) /\ authOut'[o] = Pending
              /\ (Settled(o) /\ pc'[o] = "auth") =>
                    waitOn'[o] = waitOn[o] /\ authOut'[o] = authOut[o]
              /\ (AuthContinues(o) /\ authOut[o].state = "resolved") =>
                    IF kind[o] = "authenticate"
                    THEN pc'[o] = "done" /\ result'[o] = Resolved(NoVal)
                    ELSE pc'[o] = "sent" /\ tok'[o] = cookieJar
              /\ (AuthContinues(o) /\ authOut[o].state = "rejected") =>
                    /\ pc'[o] = "done"
                    /\ result'[o].state = "rejected"
                    /\ result'[o].error.from = "login"
                    /\ result'[o].error.name = authOut[o].error.name
                    /\ result'[o].error.code = authOut[o].error.code
      ]_vars

\* two calls awaited the same login, which has settled, and both have its
\* outcome before them
C1_Witness ==
    \E o1, o2 \in Ops :
        /\ o1 # o2
        /\ Settled(o1) /\ Settled(o2)
        /\ waitOn[o1] = waitOn[o2]
        /\ authOut[o1] = authOut[o2]

\* C2: request() re-authenticates at most once for a call: after one 401,
\* one authentication and one resend, a second 401 ends the call.
C2_AtMostOneReauth == \A o \in Ops : reauths[o] <= 1

Direct(r, res) ==
    \/ r.t = "body" /\ r.success /\ res = Resolved(Val(TRUE, 0, "", r.payload))
    \/ /\ r.t = "body" /\ ~r.success
       /\ res.state = "rejected" /\ res.error.name = "Error" /\ res.error.from = "request"
    \/ /\ r.t = "status" /\ r.code # 401
       /\ res.state = "rejected" /\ res.error.name = "StatusCodeError"
       /\ res.error.code = r.code /\ res.error.from = "request"
    \/ /\ r.t = "transport"
       /\ res.state = "rejected" /\ res.error.name = "RequestError"
       /\ res.error.from = "request"

\* the 401 responses the calls 1 .. n have handled
RECURSIVE Handled401(_)
Handled401(n) == IF n = 0 THEN 0 ELSE reauths[n] + Handled401(n - 1)

\* the calls of authenticate() and of upload made so far
Explicit == { o \in Ops : kind[o] \in {"authenticate", "upload"} }

C4_MarkerTransient ==
    [][ /\ (authPromise' # 0) <=> (logins' # {})
        /\ authPromise' # 0 => logins' = {authPromise'}
        /\ \A o \in Ops :
              (CallsAuthenticate(o) /\ logins = {}) =>
                  /\ loginCalls' = loginCalls + 1
                  /\ logins' = {loginCalls'}
                  /\ waitOn'[o] = loginCalls'
      ]_vars

\* a login failed and a later authenticate() has a fresh login in flight
C4_Witness ==
    /\ \E o \in Ops :
          pc[o] = "done" /\ result[o].state = "rejected" /\ result[o].error.from = "login"
    /\ \E o \in Ops : pc[o] = "auth" /\ waitOn[o] = authPromise
    /\ authPromise = loginCalls
    /\ loginCalls >= 2

\* C10: an upload sends nothing when it is called, it awaits authenticate(),
\* whatever session the jar holds.  Its multipart request goes out once, in
\* the step in which the upload acts on the success of the login it
\* awaited, with the session the jar holds then; the outcome it acts on is
\* the one it received when that login settled.  An upload that received
\* the failure of its login sends nothing, then or later, and ends with
\* the error of the login.
C10_UploadAuthenticatesFirst ==
    [][ \A o \in Ops :
          /\ (pc[o] = "idle" /\ kind'[o] = "upload") =>
                  /\ pc'[o] = "auth" /\ sends'[o] = 0
                  /\ waitOn'[o] \in logins'
                  /\ authOut'[o] = Pending
          /\ (kind[o] = "upload" /\ authOut'[o] # authOut[o] /\ authOut'[o] # Pending) =>
                  pc[o] = "auth" /\ Settles(waitOn[o])
          /\ (kind[o] = "upload" /\ sends'[o] # sends[o]) =>
                  /\ Settled(o) /\ authOut[o].state = "resolved"
                  /\ stage'[o] = "multipart" /\ tok'[o] = cookieJar
                  /\ sends'[o] = 1
          /\ (kind[o] = "upload" /\ authOut[o].state = "rejected") =>
                  /\ sends'[o] = 0
                  /\ pc'[o] # "auth" =>
                        /\ pc'[o] = "done"
                        /\ result'[o] = Rejected(authOut[o].error)
          /\ (kind'[o] = "upload" /\ pc'[o] = "done" /\ sends'[o] = 0) =>
                  result'[o].state = "rejected" /\ result'[o].error.from = "login"
          /\ (kind'[o] = "upload" /\ result'[o].error.from = "login") => sends'[o] = 0
      ]_vars

\* a query completed under session 1, no session expired, and the upload
\* made after it still logged in (login 2) before its multipart request
C10_Witness ==
    \E o1, o2 \in Ops :
        /\ kind[o1] = "query" /\ result[o1].state = "resolved"
        /\ kind[o2] = "upload" /\ pc[o2] = "sent" /\ stage[o2] = "multipart"
        /\ tok[o2] = 2 /\ loginCalls = 2
        /\ expired = 0

(***************************************************************************)
(* Properties of queryAll under SpecQA.                                    *)
(***************************************************************************)
\* C5: against the static entity set of size total, a queryAll that
\* resolves returns the records 1 .. total, each once and in server order;
\* its last page request is the one at offset batchSize * (total \div
\* batchSize), and it has sent one request per page, total \div batchSize
\* + 1 of them, besides one resend for each 401 it received.
C5_QueryAllExact ==
    \A o \in Ops :
        (kind[o] = "queryAll" /\ pc[o] = "done" /\ result[o].state = "resolved") =>
            /\ result[o].value = Val(TRUE, 0, "", [i \in 1 .. total |-> i])
            /\ offset[o] = batchSize * (total \div batchSize)
            /\ sends[o] = (total \div batchSize) + 1 + reauths[o]

\* a queryAll over 100 records has resolved with 100 records
C5_Witness ==
    \E o \in Ops :
        /\ kind[o] = "queryAll" /\ pc[o] = "done" /\ result[o].state = "resolved"
        /\ total = 100
        /\ Len(result[o].value.payload) = 100
        /\ sends[o] = 3 + reauths[o]

\* C6: when the record count is a multiple of the page size, a queryAll
\* that has been called comes to an end.
C6_QueryAllTerminates ==
    \A o \in Ops :
        (kind[o] = "queryAll" /\ total % batchSize = 0) ~> (pc[o] = "done")

\* a queryAll over a non-empty multiple of the page size has resolved after
\* reading the empty page that follows the last full one
C6_Witness ==
    \E o \in Ops :
        /\ kind[o] = "queryAll" /\ pc[o] = "done" /\ result[o].state = "resolved"
        /\ total \in {50, 100}
        /\ offset[o] = total
        /\ Len(result[o].value.payload) = total

(***************************************************************************)
(* Properties of create, edit and delete under SpecCrud.                   *)
(***************************************************************************)
\* C7: create and edit called with a body that is not a plain object or
\* has no keys settle at once with the value {success:false, code:400,
\* message:"Body must be non-empty object"}; no request and no login call
\* is issued for them, then or later.
C7_BadBodyNoNetwork ==
    [][ \A o \in Ops :
          /\ (pc[o] = "idle" /\ kind'[o] \in {"create", "edit"} /\ body'[o].js # "object") =>
                  /\ pc'[o] = "done"
                  /\ result'[o] =
                        Resolved(Val(FALSE, 400, "Body must be non-empty object", << >>))
                  /\ sends'[o] = 0
                  /\ logins' = logins /\ loginCalls' = loginCalls
          /\ (kind[o] \in {"create", "edit"} /\ body[o].js # "object") =>
                  /\ pc'[o] = "done" /\ result'[o] = result[o]
                  /\ sends'[o] = 0 /\ reauths'[o] = 0
      ]_vars

\* an edit with the body {} has returned and nothing went over the network
C7_Witness ==
    \E o \in Ops :
        /\ kind[o] = "edit" /\ body[o].js = "emptyObject"
        /\ pc[o] = "done" /\ result[o].value.code = 400
        /\ sends[o] = 0 /\ loginCalls = 0

\* call o receives, in this step, an error-status answer to its write
\* whose message array is one of ms
WriteRefused(o, k, ms) ==
    /\ kind[o] = k /\ pc[o] = "reply" /\ stage[o] = "write"
    /\ resp[o].t = "status" /\ resp[o].code # 401
    /\ resp[o].msg \in ms
    /\ pc'[o] # pc[o]

\* the failure that carries the server's answer of call o, without the raw
\* response
Propagated(o) ==
    Rejected(Err("StatusCodeError", resp[o].code, TRUE, resp[o].msg, FALSE, "request"))

\* C8: when the server answers the update of an edit with its 'could not
\* load object ... to update' error, the edit returns {success:false,
\* code:400, message:"Not found"} if failOnNotFound is unset or false and
\* fails with the server's error if failOnNotFound is true.
C8_EditNotFound ==
    [][ \A o \in Ops :
          WriteRefused(o, "edit", {NotFoundUpdate, NotFoundUpdateSecond}) =>
              /\ pc'[o] = "done"
              /\ result'[o] =
                    IF failOnNotFound[o] = "true"
                    THEN Propagated(o)
                    ELSE Resolved(Val(FALSE, 400, "Not found", << >>))
      ]_vars

\* an edit whose update the server refused has returned "Not found"
C8_Witness ==
    \E o \in Ops :
        /\ kind[o] = "edit" /\ pc[o] = "done" /\ sends[o] >= 1
        /\ failOnNotFound[o] \in {"unset", "false"}
        /\ result[o] = Resolved(Val(FALSE, 400, "Not found", << >>))

\* C9: when the server answers a delete with its 'could not load object
\* ... to delete' error, the delete returns {success:false, code:400,
\* message:"Not found"} if failOnNotFound is unset or false and fails with
\* the server's error if it is true; the 'to update' message is not
\* converted, whatever failOnNotFound is.
C9_DeleteNotFound ==
    [][ \A o \in Ops :
          /\ WriteRefused(o, "delete", {NotFoundDelete, NotFoundDeleteSecond}) =>
                  /\ pc'[o] = "done"
                  /\ result'[o] =
                        IF failOnNotFound[o] = "true"
                        THEN Propagated(o)
                        ELSE Resolved(Val(FALSE, 400, "Not found", << >>))
          /\ WriteRefused(o, "delete", {NotFoundUpdate, NotFoundUpdateSecond}) =>
                  pc'[o] = "done" /\ result'[o] = Propagated(o)
      ]_vars

\* a delete the server refused has returned "Not found"
C9_Witness ==
    \E o \in Ops :
        /\ kind[o] = "delete" /\ pc[o] = "done" /\ sends[o] >= 1
        /\ failOnNotFound[o] \in {"unset", "false"}
        /\ result[o] = Resolved(Val(FALSE, 400, "Not found", << >>))

(***************************************************************************)
(* Properties of find and of the read-back of create and edit.             *)
(***************************************************************************)
\* C11: a find that the server answers with an empty result set fails: it
\* does not end with a successful result.
C11_FindEmptyFails ==
    \A o \in Ops :
        (kind[o] = "find" /\ pc[o] = "done" /\ resp[o] = Body(TRUE, << >>, << >>)) =>
            ~(result[o].state = "resolved" /\ result[o].value.success)

\* create o has returned a successful result
Created(o) ==
    /\ kind[o] = "create" /\ pc[o] = "done"
    /\ result[o].state = "resolved" /\ result[o].value.success

\* no other call edits or deletes the entity call o is about
Unmodified(o) ==
    \A p \in Ops \ {o} : ~(kind[p] \in {"edit", "delete"} /\ ident[p] = ident[o])

\* the result set p holds exactly one record, which has the id and the
\* fields of create o
Matches(p, o) ==
    /\ Len(p) = 1
    /\ IdOf(p[1]) = ident[o]
    /\ FieldsOf(p[1]) = fields[o]

\* C12: when nothing else modifies the entity, a create that succeeded
\* returns the record its read-back found under the id of the write's
\* answer, with the fields that were submitted; and a find on that id that
\* the server handles afterwards returns that same record.
C12_CreateRoundTrip ==
    [][ \A o \in Ops :
          (Created(o) /\ Unmodified(o)) =>
              /\ ident[o] \in Ids
              /\ Matches(result[o].value.payload, o)
              /\ result[o].value.payload = First(resp[o].payload)
              /\ \A p \in Ops :
                    (kind[p] = "find" /\ ident[p] = ident[o]) =>
                        /\ (pc[p] = "sent" /\ pc'[p] = "reply") =>
                                Matches(resp'[p].payload, o)
                        /\ (pc[p] = "reply" /\ pc'[p] = "done" /\ Matches(resp[p].payload, o)) =>
                                /\ result'[p].state = "resolved"
                                /\ result'[p].value.success
                                /\ Matches(result'[p].value.payload, o)
      ]_vars

\* a create has succeeded and a find on the id it returned has come back
\* with the submitted fields
C12_Witness ==
    \E o \in Ops : \E p \in Ops :
        /\ Created(o) /\ Unmodified(o)
        /\ kind[p] = "find" /\ pc[p] = "done" /\ ident[p] = ident[o]
        /\ result[p].state = "resolved"
        /\ Matches(result[p].value.payload, o)
        /\ fields[o] = 2

(***************************************************************************)
(* Properties of request() and of the errors the operations pass on.       *)
(***************************************************************************)
\* call o, made through request(), handles in this step a response that
\* is not a 401
Handles(o) ==
    /\ ViaRequest(o) /\ pc[o] = "reply" /\ ~Is401(resp[o])
    /\ pc'[o] # pc[o]

\* C13: request() turns a response body with success:false into a
\* rejection, although the transport status is 200, on the first send and
\* on the resend after a re-authentication alike; any other response body
\* is what request() resolves with, unchanged.
C13_EnvelopeCheck ==
    [][ \A o \in Ops :
          (Handles(o) /\ resp[o].t = "body") =>
              /\ pc'[o] = "done"
              /\ resp[o].success = FALSE =>
                    result'[o] =
                        Rejected(Err("Error", 200, FALSE, resp[o].msg, FALSE, "request"))
              /\ resp[o].success # FALSE =>
                    result'[o] = Resolved(Val(resp[o].success, 0, "", resp[o].payload))
      ]_vars

\* a createUploadSegment was rejected for success:false in the answer to
\* its resend, another was resolved with the body it got
C13_Witness ==
    \E o \in Ops : \E p \in Ops :
        /\ kind[o] = "createUploadSegment" /\ pc[o] = "done" /\ reauths[o] >= 1
        /\ resp[o] = Body(FALSE, << >>, << >>)
        /\ result[o].state = "rejected" /\ result[o].error.name = "Error"
        /\ kind[p] = "createUploadSegment" /\ pc[p] = "done"
        /\ result[p] = Resolved(Val(TRUE, 0, "", << 1 >>))

\* call o has failed: the promise it returned is rejected
Failed(o) == pc[o] = "done" /\ result[o].state = "rejected"

\* C14 as stated: no error that reaches the caller of an operation
\* carries the raw transport response.
C14_AllErrorsStripped ==
    \A o \in Ops : Failed(o) => ~result[o].error.response

\* C14: an error that reaches the caller of authenticate or of an
\* operation made through request() carries no raw transport response;
\* so does the error of the login that upload and uploadSegmentFile start
\* with.  The error of the multipart request of upload or of
\* uploadSegmentFile reaches the caller as rp made it: a StatusCodeError
\* with the raw response attached.
C14_StrippedExceptMultipart ==
    \A o \in Ops :
        Failed(o) =>
            (result[o].error.response <=>
                (/\ kind[o] \in {"upload", "uploadSegmentFile"}
                 /\ stage[o] = "multipart"
                 /\ resp[o].t = "status"
                 /\ result[o].error.name = "StatusCodeError"))

\* a createUploadSegment and an uploadSegmentFile have both failed on an
\* error status of the server: the error of the createUploadSegment has
\* lost the response, the error of the uploadSegmentFile has it
C14_Witness ==
    \E o \in Ops : \E p \in Ops :
        /\ kind[o] = "createUploadSegment" /\ Failed(o)
        /\ result[o].error.name = "StatusCodeError" /\ ~result[o].error.response
        /\ kind[p] = "uploadSegmentFile" /\ Failed(p)
        /\ result[p].error.name = "StatusCodeError" /\ result[p].error.response

\* C15: when a concurrent delete of the same entity is carried out between
\* the successful write of a create or an edit and its read-back, the
\* create or edit ends with a not-found result: it does not return a
\* successful result.
C15_DeletedBeforeReadBack ==
    \A o \in Ops : \A p \in Ops :
        (/\ kind[o] \in {"create", "edit"} /\ pc[o] = "done" /\ stage[o] = "read"
         /\ resp[o] = Body(TRUE, << >>, << >>)
         /\ kind[p] = "delete" /\ ident[p] = ident[o]
         /\ resp[p].t = "body" /\ resp[p].success) =>
            ~(result[o].state = "resolved" /\ result[o].value.success)

(***************************************************************************)
(* Properties of concurrent queryAll calls under SpecQAConc.               *)
(***************************************************************************)
\* the records 1 .. n in order
FirstRecords(n) == [i \in 1 .. n |-> i]

\* C16: concurrent queryAll calls share no pagination state.  The offset
\* and the accumulated records of a call change only in a step of that
\* call that handles a page: the offset goes up by 50 after a full page,
\* the page is appended to the records.  While a call is under way its
\* records are those of its own pages 0, 50, ... below its offset, and its
\* result is the concatenation of its own pages, whatever the other calls
\* do.
C16_IndependentPaging ==
    [][ \A o \in Ops :
          kind[o] = "queryAll" =>
              /\ pc[o] \in {"sent", "reply", "auth"} =>
                    /\ offset[o] % batchSize = 0
                    /\ results[o] = FirstRecords(offset[o])
              /\ (pc[o] = "done" /\ result[o].state = "resolved") =>
                    result[o].value.payload = FirstRecords(total)
              /\ (pc[o] # "reply" \/ pc'[o] = "reply") =>
                    offset'[o] = offset[o] /\ results'[o] = results[o]
              /\ (pc[o] = "reply" /\ pc'[o] # "reply" /\ resp[o].t = "body") =>
                    /\ results'[o] = results[o] \o resp[o].payload
                    /\ offset'[o] =
                          IF Len(resp[o].payload) = batchSize
                          THEN offset[o] + batchSize
                          ELSE offset[o]
      ]_vars

\* two queryAll calls at different offsets: one has returned all 100
\* records, the other is waiting for its second page
C16_Witness ==
    \E o \in Ops : \E p \in Ops :
        /\ kind[o] = "queryAll" /\ pc[o] = "done" /\ result[o].state = "resolved"
        /\ total = 100 /\ Len(result[o].value.payload) = 100
        /\ kind[p] = "queryAll" /\ pc[p] = "sent" /\ offset[p] = 50
        /\ Len(results[p]) = 50

(***************************************************************************)
(* Properties of the error handling of edit and delete under SpecCrud.     *)
(***************************************************************************)
\* the message arrays of an error status that hold the not-found message
\* of operation k
NotFoundOf(k) ==
    IF k = "edit"
    THEN {NotFoundUpdate, NotFoundUpdateSecond}
    ELSE {NotFoundDelete, NotFoundDeleteSecond}

\* C17: an edit or delete whose request fails converts the failure into
\* {success:false, code:400, message:"Not found"} only when the server's
\* error carries the not-found message of that operation and
\* failOnNotFound is unset or false.  In every other case, whatever
\* failOnNotFound is, the operation fails with the error request() gave:
\* the server's error for an error status, the transport's error when no
\* response came.
C17_OtherErrorsPropagate ==
    [][ \A o \in Ops :
          (Handles(o) /\ kind[o] \in {"edit", "delete"} /\ pc'[o] = "done") =>
              LET converts == /\ resp[o].t = "status"
                              /\ resp[o].msg \in NotFoundOf(kind[o])
                              /\ failOnNotFound[o] \in {"unset", "false"}
              IN
              /\ (result'[o] = Resolved(Val(FALSE, 400, "Not found", << >>))) <=> converts
              /\ (resp[o].t = "status" /\ ~converts) => result'[o] = Propagated(o)
              /\ resp[o].t = "transport" =>
                    result'[o] =
                        Rejected(Err("RequestError", 0, FALSE, << >>, FALSE, "request"))
      ]_vars

\* an edit called without failOnNotFound has failed with the server's
\* error, whose message names the words of the pattern in the wrong order
C17_Witness ==
    \E o \in Ops :
        /\ kind[o] = "edit" /\ pc[o] = "done" /\ failOnNotFound[o] = "unset"
        /\ resp[o] = Status(400, WrongOrder)
        /\ result[o].state = "rejected" /\ result[o].error.msg = WrongOrder

\* the write of call o has been answered with a body that request() lets
\* through
WriteSucceeded(o) ==
    /\ pc[o] = "reply" /\ stage[o] = "write"
    /\ resp[o].t = "body" /\ resp[o].success

\* C18 as stated: in create and edit the read-back is issued only when the
\* write has completed successfully, and once: the call goes from its
\* write to its read in the step that handles the successful answer to
\* the write, and never again.  A write that fails ends the call without
\* a read.  What the read-back returns is what the call returns: the
\* first record of the answer when the read succeeds, the rejection of
\* the read when it fails.
C18_ReadBackAfterWrite ==
    [][ \A o \in Ops :
          kind[o] \in {"create", "edit"} =>
              /\ (stage'[o] = "read" /\ stage[o] # "read") =>
                    /\ WriteSucceeded(o)
                    /\ pc'[o] = "sent" /\ sends'[o] = sends[o] + 1
              /\ stage[o] = "read" => stage'[o] = "read"
              /\ (Handles(o) /\ stage[o] = "write") =>
                    IF WriteSucceeded(o)
                    THEN stage'[o] = "read"
                    ELSE /\ pc'[o] = "done" /\ stage'[o] = "write"
                         /\ sends'[o] = sends[o]
                         /\ ~(result'[o].state = "resolved" /\ result'[o].value.success)
              /\ (Handles(o) /\ stage[o] = "read") =>
                    /\ pc'[o] = "done" /\ sends'[o] = sends[o]
                    /\ (resp[o].t = "body" /\ resp[o].success) =>
                          result'[o] = Resolved(Val(TRUE, 0, "", First(resp[o].payload)))
                    /\ ~(resp[o].t = "body" /\ resp[o].success) =>
                          result'[o] = Rejected(envelope(resp[o]).error)
      ]_vars

(***************************************************************************)
(* Which network calls pass through request(), under Spec.                 *)
(***************************************************************************)
\* C19 as stated: every network call of an entity operation, login calls
\* apart, gets the treatment of request(): no operation ends on a 401
\* answer, and none returns a success for a body with success:false.
C19_AllViaRequest ==
    \A o \in Ops :
        (kind[o] \in {"query", "upload"} /\ pc[o] = "done") =>
            /\ ~Is401(resp[o])
            /\ (resp[o].t = "body" /\ ~resp[o].success) => result[o].state = "rejected"

\* C19: the network call of a query is sent through request(): the query
\* never ends on a 401 answer, and a body with success:false fails it.
\* The multipart request of an upload is sent with rp directly: whatever
\* the answer, a 401 included, the upload ends in the step that handles
\* it, without a login call and without sending again; a body is returned
\* as a success, success:false or not, and an error is passed on as it is.
C19_MultipartBypassesRequest ==
    [][ \A o \in Ops :
          /\ (kind[o] = "query" /\ pc'[o] = "done") =>
                /\ ~Is401(resp'[o])
                /\ (resp'[o].t = "body" /\ ~resp'[o].success) =>
                        result'[o].state = "rejected"
          /\ (kind[o] = "upload" /\ pc[o] = "reply" /\ pc'[o] # "reply") =>
                /\ pc'[o] = "done"
                /\ loginCalls' = loginCalls /\ logins' = logins
                /\ sends'[o] = sends[o] /\ reauths'[o] = 0
                /\ result'[o] =
                      IF resp[o].t = "body"
                      THEN Resolved(Val(TRUE, 0, "", resp[o].payload))
                      ELSE Rejected(Err("StatusCodeError", resp[o].code, TRUE, resp[o].msg,
                                        TRUE, "upload"))
      ]_vars

\* an upload has failed on a 401 answer to its multipart request, after
\* the one login it began with
C19_Witness ==
    \E o \in Ops :
        /\ kind[o] = "upload" /\ pc[o] = "done" /\ stage[o] = "multipart"
        /\ Is401(resp[o])
        /\ result[o].state = "rejected" /\ result[o].error.code = 401
        /\ sends[o] = 1

(***************************************************************************)
(* When request() authenticates, under SpecRequest.                        *)
(***************************************************************************)
\* the response call o holds has status 401
Got401(o) == resp[o].t = "status" /\ resp[o].code = 401

\* C20: in request() only a 401 status leads to authentication.  A call
\* that gets any other error status, or no response at all, ends in the
\* step that handles it, with that failure: no login call is started or
\* joined and nothing is sent again.  A call joins or starts a login only
\* in the step that handles a 401 answer to its request.
C20_Only401Authenticates ==
    [][ \A o \in Ops :
          /\ (/\ pc[o] = "reply" /\ pc'[o] # "reply" /\ ~Got401(o)
              /\ resp[o].t \in {"status", "transport"}) =>
                /\ pc'[o] = "done"
                /\ result'[o] =
                      IF resp[o].t = "status"
                      THEN Propagated(o)
                      ELSE Rejected(Err("RequestError", 0, FALSE, << >>, FALSE, "request"))
                /\ loginCalls' = loginCalls /\ logins' = logins
                /\ authPromise' = authPromise
                /\ sends'[o] = sends[o] /\ reauths'[o] = reauths[o]
          /\ (reauths'[o] # reauths[o] \/ (pc'[o] = "auth" /\ pc[o] # "auth")) =>
                /\ pc[o] = "reply" /\ Got401(o)
                /\ reauths'[o] = reauths[o] + 1
          /\ loginCalls' # loginCalls =>
                \E p \in Ops : pc[p] = "reply" /\ Got401(p) /\ pc'[p] = "auth"
      ]_vars

\* a call has failed on status 500, another on a transport error; each
\* had been sent twice, for the 401 the fresh client got first
C20_Witness ==
    \E o \in Ops : \E p \in Ops :
        /\ pc[o] = "done" /\ resp[o] = Status(500, << >>)
        /\ result[o].state = "rejected" /\ result[o].error.code = 500
        /\ reauths[o] = 1 /\ sends[o] = 2
        /\ pc[p] = "done" /\ resp[p] = Transport
        /\ result[p].state = "rejected" /\ result[p].error.name = "RequestError"
        /\ reauths[p] = 1 /\ sends[p] = 2

(***************************************************************************)
(* A re-authentication that fails, under Spec.                             *)
(***************************************************************************)
\* login id fails in this step: it settles rejected, and the calls that
\* await it receive its error
LoginFails(id) ==
    /\ Settles(id)
    /\ \E o \in Waiters(id) : authOut'[o].state = "rejected"

\* C21: when the login that request() started or joined after a 401 fails,
\* every call that awaits that login receives the failure; a call that has
\* received it sends nothing any more: the one step it takes ends it,
\* rejected with the error of the login without the raw response, and a
\* call that has ended stays as it is.
C21_FailedReauthEndsCall ==
    [][ /\ \A id \in logins :
              LoginFails(id) =>
                  \A o \in Waiters(id) :
                      /\ authOut'[o].state = "rejected"
                      /\ authOut'[o].error.from = "login"
                      /\ \A p \in Waiters(id) : authOut'[p] = authOut'[o]
        /\ \A o \in Ops :
              (pc[o] = "auth" /\ authOut[o].state = "rejected") =>
                  /\ ViaRequest(o) => reauths[o] >= 1
                  /\ sends'[o] = sends[o]
                  /\ pc'[o] \in {"auth", "done"}
                  /\ pc'[o] = "done" =>
                        /\ result'[o] = Rejected(stripResponse(authOut[o].error))
                        /\ result'[o].error.from = "login"
                        /\ result'[o].error.name \in
                              {"Error", "StatusCodeError", "RequestError"}
                        /\ ~result'[o].error.response
        /\ \A o \in Ops :
              pc[o] = "done" =>
                  pc'[o] = "done" /\ sends'[o] = sends[o] /\ result'[o] = result[o]
      ]_vars

\* two calls that awaited the same login have failed with its error, each
\* after the one send that was answered 401
C21_Witness ==
    \E o \in Ops : \E p \in Ops :
        /\ o # p /\ loginCalls = 1
        /\ pc[o] = "done" /\ pc[p] = "done"
        /\ sends[o] = 1 /\ sends[p] = 1 /\ reauths[o] = 1 /\ reauths[p] = 1
        /\ result[o].state = "rejected" /\ result[o].error.from = "login"
        /\ result[o].error.name = "RequestError"
        /\ result[p] = result[o]

(***************************************************************************)
(* queryAll when a page request fails, under SpecQAFail.                   *)
(***************************************************************************)
\* the page request of call o has been answered with a failure that is
\* not a 401
PageFailed(o) ==
    /\ kind[o] = "queryAll" /\ pc[o] = "reply" /\ ~Got401(o)
    /\ ~(resp[o].t = "body" /\ resp[o].success)

\* C22: queryAll never returns a partial result.  When a page request
\* fails, or the login made for it fails, the call ends in the step in
\* which it handles the failure, rejected with that error: no page is requested any more and the
\* records of the pages before are not in what the caller gets.  A
\* queryAll that resolves returns the records of all pages.
C22_NoPartialResult ==
    [][ \A o \in Ops :
          /\ (PageFailed(o) /\ pc'[o] # "reply") =>
                /\ pc'[o] = "done" /\ sends'[o] = sends[o]
                /\ result'[o].state = "rejected"
                /\ result'[o].error.code = resp[o].code
                /\ result'[o].error.from = "request"
                /\ result'[o].value.payload = << >>
          /\ (kind[o] = "queryAll" /\ pc[o] = "auth" /\ pc'[o] # "auth") =>
                \/ /\ authOut[o].state = "resolved"
                   /\ pc'[o] = "sent" /\ result'[o] = result[o]
                \/ /\ authOut[o].state = "rejected"
                   /\ pc'[o] = "done" /\ sends'[o] = sends[o]
                   /\ result'[o].state = "rejected"
                   /\ result'[o].error.from = "login"
                   /\ result'[o].value.payload = << >>
          /\ (kind[o] = "queryAll" /\ pc'[o] = "done" /\ result'[o].state = "resolved") =>
                result'[o].value.payload = FirstRecords(total)
          /\ (kind[o] = "queryAll" /\ pc[o] = "done") =>
                pc'[o] = "done" /\ sends'[o] = sends[o] /\ result'[o] = result[o]
      ]_vars

\* a queryAll over 100 records has failed on status 500 at its second
\* page, with the 50 records of the first page accumulated
C22_Witness ==
    \E o \in Ops :
        /\ kind[o] = "queryAll" /\ pc[o] = "done" /\ total = 100
        /\ offset[o] = 50 /\ Len(results[o]) = 50
        /\ resp[o] = Status(500, << >>)
        /\ result[o].state = "rejected" /\ result[o].error.code = 500

(***************************************************************************)
(* The not-found message inside a 200 envelope, under SpecCrud.            *)
(***************************************************************************)
\* C23: the not-found conversion of edit and delete applies only to the
\* error of an error-status response.  When the server reports the
\* not-found message of the operation in a 200 envelope with
\* success:false, the edit or delete fails with the Error request() made
\* of the envelope, whatever failOnNotFound is; and an edit or delete
\* returns the "Not found" value only in a step that handles an
\* error-status response.
C23_EnvelopeNotConverted ==
    [][ \A o \in Ops :
          kind[o] \in {"edit", "delete"} =>
              /\ (/\ pc[o] = "reply" /\ pc'[o] # "reply"
                  /\ resp[o].t = "body" /\ resp[o].success = FALSE
                  /\ resp[o].msg \in NotFoundOf(kind[o])) =>
                    /\ pc'[o] = "done"
                    /\ result'[o] =
                          Rejected(Err("Error", 200, FALSE, resp[o].msg, FALSE, "request"))
              /\ (/\ pc[o] # "done" /\ pc'[o] = "done"
                  /\ result'[o] = Resolved(Val(FALSE, 400, "Not found", << >>))) =>
                    /\ pc[o] = "reply"
                    /\ resp[o].t = "status"
      ]_vars

\* an edit called without failOnNotFound has failed on a 200 envelope that
\* holds the not-found message of edit
C23_Witness ==
    \E o \in Ops :
        /\ kind[o] = "edit" /\ pc[o] = "done" /\ failOnNotFound[o] = "unset"
        /\ resp[o] = Body(FALSE, << >>, NotFoundUpdate)
        /\ result[o].state = "rejected" /\ result[o].error.name = "Error"
        /\ ~result[o].error.hasBody

====
